---- MODULE Spec2Model ----
(***************************************************************************)
(* A model of the OpenAI reverse proxy of main.go: handleProxy, the prompt *)
(* rewriter modifyRequestBody, the streaming relay (handleStreamRequest,   *)
(* streamResponseWriter.Write) and the buffered relay                      *)
(* (handleNonStreamRequest, responseBodyWriter), with logResponse.         *)
(*                                                                         *)
(* A byte string is a sequence of one-character strings.  json.Unmarshal   *)
(* is a lexer and a parser over such bytes and json.Marshal a printer, so  *)
(* a body that goes through both is compared with the original byte by     *)
(* byte.                                                                   *)
(***************************************************************************)
EXTENDS Integers, Sequences, FiniteSets, TLC

VARIABLES
    configFile,   \* prompt_modifications of config.json, in file order
    config,       \* the config struct filled by init()
    openAIURL,    \* the upstream URL parsed by init(): its host and its path
    parked,       \* the requests whose handlers are not running at the moment
    req,          \* the inbound request (c.Request) and how reading it ends
    pc,           \* where the handler of the request is
    outreq,       \* the request sent upstream (after proxy.Director)
    relay,        \* invocations of the two relays
    resp,         \* the upstream response still to be relayed
    writer,       \* gin's ResponseWriter and the net/http response under it
    capture,      \* responseBodyWriter.body and .statusCode
    log           \* the entries written to logger

vars ==
    <<configFile, config, openAIURL, parked, req, pc, outreq, relay, resp, writer,
      capture, log>>

\* What init() sets and every request reads, and the requests not running.
shared == <<configFile, config, openAIURL, parked>>

----------------------------------------------------------------------------
(* Byte strings *)

\* s is a prefix of t (bytes.HasPrefix / strings.HasPrefix).
HasPrefix(s, prefix) ==
    /\ Len(prefix) <= Len(s)
    /\ SubSeq(s, 1, Len(prefix)) = prefix

\* strings.Contains(s, substr).
Contains(s, substr) ==
    \E i \in 0..(Len(s) - Len(substr)) : SubSeq(s, i + 1, i + Len(substr)) = substr

RECURSIVE ReplaceAllEmpty(_, _)
\* strings.ReplaceAll with an empty old string: new goes before every byte and
\* after the last one.
ReplaceAllEmpty(s, new) ==
    IF s = <<>> THEN new
    ELSE new \o <<Head(s)>> \o ReplaceAllEmpty(Tail(s), new)

RECURSIVE ReplaceAll(_, _, _)
\* strings.ReplaceAll(s, old, new): every non-overlapping occurrence of old,
\* scanning left to right, is replaced by new; replaced text is not rescanned.
ReplaceAll(s, old, new) ==
    IF old = <<>> THEN ReplaceAllEmpty(s, new)
    ELSE IF Len(s) < Len(old) THEN s
    ELSE IF HasPrefix(s, old)
         THEN new \o ReplaceAll(SubSeq(s, Len(old) + 1, Len(s)), old, new)
         ELSE <<Head(s)>> \o ReplaceAll(Tail(s), old, new)

\* The byte value of the characters object keys are made of.
Ord(c) ==
    CASE c = "a" -> 97  [] c = "c" -> 99  [] c = "d" -> 100 [] c = "e" -> 101
      [] c = "g" -> 103 [] c = "h" -> 104 [] c = "i" -> 105 [] c = "l" -> 108 [] c = "m" -> 109 [] c = "n" -> 110
      [] c = "o" -> 111 [] c = "r" -> 114 [] c = "s" -> 115 [] c = "t" -> 116
      [] c = "u" -> 117 [] OTHER -> 0

RECURSIVE LexLess(_, _)
\* s < t as Go compares strings (byte-wise).
LexLess(s, t) ==
    IF t = <<>> THEN FALSE
    ELSE IF s = <<>> THEN TRUE
    ELSE IF Head(s) = Head(t) THEN LexLess(Tail(s), Tail(t))
    ELSE Ord(Head(s)) < Ord(Head(t))

----------------------------------------------------------------------------
(* JSON texts and values *)

Null == <<"n", "u", "l", "l">>
Tok(t, s) == [t |-> t, s |-> s]
LBrace == Tok("{", <<>>)
RBrace == Tok("}", <<>>)
LBrack == Tok("[", <<>>)
RBrack == Tok("]", <<>>)
Colon  == Tok(":", <<>>)
Comma  == Tok(",", <<>>)
Ws     == Tok("ws", <<>>)
Str(s) == Tok("str", s)
Lit(s) == Tok("lit", s)
Raw(s) == Tok("raw", s)

\* The bytes of one lexeme.
TokBytes(tok) ==
    CASE tok.t = "str" -> <<"\"">> \o tok.s \o <<"\"">>
      [] tok.t \in {"lit", "raw"} -> tok.s
      [] tok.t = "ws" -> <<" ">>
      [] OTHER -> <<tok.t>>

RECURSIVE Bytes(_)
\* The bytes of a text.
Bytes(toks) ==
    IF toks = <<>> THEN <<>> ELSE TokBytes(Head(toks)) \o Bytes(Tail(toks))

\* The characters that end a literal, and the literals of the model.
Punct == {"{", "}", "[", "]", ":", ","}
WsChars == {" ", "\n", "\r", "\t"}
Quote == "\""
BigInt == <<"9", "0", "0", "7", "1", "9", "9", "2", "5", "4", "7", "4", "0", "9", "9", "3">>
BigIntRounded ==
    <<"9", "0", "0", "7", "1", "9", "9", "2", "5", "4", "7", "4", "0", "9", "9", "2">>
Literals == {Null, <<"t", "r", "u", "e">>, <<"1">>, BigInt, BigIntRounded}

\* The length of the longest prefix of s with no character of stop.
RECURSIVE RunLen(_, _)
RunLen(s, stop) ==
    IF s = <<>> \/ Head(s) \in stop THEN 0 ELSE 1 + RunLen(Tail(s), stop)

RECURSIVE Lex(_)
\* The lexemes of a byte string, as encoding/json scans them; bytes that begin
\* no lexeme (an unknown word, a string with no closing quote) come out as a
\* raw lexeme, which no value can contain.
Lex(s) ==
    IF s = <<>> THEN <<>>
    ELSE LET c == Head(s)
         IN  IF c \in Punct THEN <<Tok(c, <<>>)>> \o Lex(Tail(s))
             ELSE IF c \in WsChars THEN <<Ws>> \o Lex(Tail(s))
             ELSE IF c = Quote
                  THEN LET n == RunLen(Tail(s), {Quote})
                       IN  IF n = Len(s) - 1 THEN <<Raw(s)>>
                           ELSE <<Str(SubSeq(s, 2, n + 1))>>
                                    \o Lex(SubSeq(s, n + 3, Len(s)))
             ELSE LET n == RunLen(s, Punct \cup WsChars \cup {Quote})
                      w == SubSeq(s, 1, n)
                  IN  <<IF w \in Literals THEN Lit(w) ELSE Raw(w)>>
                          \o Lex(SubSeq(s, n + 1, Len(s)))

\* Decoded values (interface{}): string, literal (number, true, false, null),
\* []interface{} and map[string]interface{}.
VStr(s) == [t |-> "str", v |-> s]
VLit(s) == [t |-> "lit", v |-> s]
VArr(a) == [t |-> "arr", v |-> a]
VObj(o) == [t |-> "obj", v |-> o]
EmptyMap == [k \in {} |-> VLit(<<>>)]

\* m[k] = v on a Go map.
Put(m, k, v) == [x \in (DOMAIN m) \cup {k} |-> IF x = k THEN v ELSE m[x]]

RECURSIVE SkipWs(_, _)
SkipWs(b, i) ==
    IF i <= Len(b) /\ b[i].t = "ws" THEN SkipWs(b, i + 1) ELSE i

ParseFail == [ok |-> FALSE, v |-> VLit(<<>>), i |-> 0]
ParseOk(v, i) == [ok |-> TRUE, v |-> v, i |-> i]

RECURSIVE ParseValue(_, _), ParseMembers(_, _, _), ParseElems(_, _, _)
\* One JSON value starting at lexeme i; .i is the lexeme after it.
ParseValue(b, i) ==
    IF i > Len(b) THEN ParseFail
    ELSE CASE b[i].t = "str" -> ParseOk(VStr(b[i].s), i + 1)
           [] b[i].t = "lit" -> ParseOk(VLit(b[i].s), i + 1)
           [] b[i].t = "{" ->
                LET j == SkipWs(b, i + 1)
                IN  IF j <= Len(b) /\ b[j].t = "}"
                    THEN ParseOk(VObj(EmptyMap), j + 1)
                    ELSE ParseMembers(b, j, EmptyMap)
           [] b[i].t = "[" ->
                LET j == SkipWs(b, i + 1)
                IN  IF j <= Len(b) /\ b[j].t = "]"
                    THEN ParseOk(VArr(<<>>), j + 1)
                    ELSE ParseElems(b, j, <<>>)
           [] OTHER -> ParseFail

\* The members of an object from the key at lexeme i on; a repeated key keeps
\* its last value.
ParseMembers(b, i, acc) ==
    IF i > Len(b) \/ b[i].t # "str" THEN ParseFail
    ELSE LET c == SkipWs(b, i + 1)
         IN  IF c > Len(b) \/ b[c].t # ":" THEN ParseFail
             ELSE LET r == ParseValue(b, SkipWs(b, c + 1))
                  IN  IF ~r.ok THEN ParseFail
                      ELSE LET j == SkipWs(b, r.i)
                               acc2 == Put(acc, b[i].s, r.v)
                           IN  IF j > Len(b) THEN ParseFail
                               ELSE IF b[j].t = ","
                                    THEN ParseMembers(b, SkipWs(b, j + 1), acc2)
                               ELSE IF b[j].t = "}"
                                    THEN ParseOk(VObj(acc2), j + 1)
                               ELSE ParseFail

\* The elements of an array from the value at lexeme i on.
ParseElems(b, i, acc) ==
    LET r == ParseValue(b, i)
    IN  IF ~r.ok THEN ParseFail
        ELSE LET j == SkipWs(b, r.i)
                 acc2 == Append(acc, r.v)
             IN  IF j > Len(b) THEN ParseFail
                 ELSE IF b[j].t = ","
                      THEN ParseElems(b, SkipWs(b, j + 1), acc2)
                 ELSE IF b[j].t = "]"
                      THEN ParseOk(VArr(acc2), j + 1)
                 ELSE ParseFail

\* json.Valid(data): the bytes are one JSON value, whitespace around it.
ValidJSON(data) ==
    LET body == Lex(data)
        r == ParseValue(body, SkipWs(body, 1))
    IN  r.ok /\ SkipWs(body, r.i) = Len(body) + 1

\* A JSON number stored in an interface{} is a float64, and json.Marshal
\* writes a float64 with the fewest digits that give it back.  Of the literals
\* of the model, 1 is a float64 and is written 1; 9007199254740993 is 2^53 + 1,
\* which no float64 is: it is stored as the nearest one, 2^53, and written
\* 9007199254740992.  true and null are stored as they are.
Float64(lit) == IF lit = BigInt THEN BigIntRounded ELSE lit

RECURSIVE ToInterface(_)
\* The value json.Unmarshal stores for a parsed value.
ToInterface(v) ==
    CASE v.t = "lit" -> VLit(Float64(v.v))
      [] v.t = "arr" -> VArr([i \in 1..Len(v.v) |-> ToInterface(v.v[i])])
      [] v.t = "obj" -> VObj([k \in DOMAIN v.v |-> ToInterface(v.v[k])])
      [] OTHER -> v

\* json.Unmarshal(data, &m), m a map[string]interface{}: an error unless the
\* bytes are one JSON value, and that value an object or null (null leaves the
\* map nil).
Unmarshal(data) ==
    LET body == Lex(data)
        r == ParseValue(body, SkipWs(body, 1))
    IN  IF ~ValidJSON(data) THEN [err |-> TRUE, v |-> VLit(<<>>)]
        ELSE IF r.v.t = "obj" \/ (r.v.t = "lit" /\ r.v.v = Null)
             THEN [err |-> FALSE, v |-> ToInterface(r.v)]
             ELSE [err |-> TRUE, v |-> VLit(<<>>)]

\* The least key of a non-empty set of keys.
MinKey(S) == CHOOSE k \in S : \A x \in S \ {k} : LexLess(k, x)

RECURSIVE SortedKeys(_)
\* The keys of a map in the order json.Marshal writes them (sorted).
SortedKeys(S) ==
    IF S = {} THEN <<>> ELSE <<MinKey(S)>> \o SortedKeys(S \ {MinKey(S)})

RECURSIVE MarshalToks(_), MarshalMembers(_, _), MarshalElems(_)
\* The lexemes json.Marshal writes for v: no insignificant whitespace, the keys
\* of every object sorted.
MarshalToks(v) ==
    CASE v.t = "str" -> <<Str(v.v)>>
      [] v.t = "lit" -> <<Lit(v.v)>>
      [] v.t = "arr" -> <<LBrack>> \o MarshalElems(v.v) \o <<RBrack>>
      [] v.t = "obj" -> <<LBrace>> \o MarshalMembers(v.v, SortedKeys(DOMAIN v.v))
                            \o <<RBrace>>

MarshalMembers(m, keys) ==
    IF keys = <<>> THEN <<>>
    ELSE <<Str(Head(keys)), Colon>> \o MarshalToks(m[Head(keys)])
            \o (IF Len(keys) > 1 THEN <<Comma>> ELSE <<>>)
            \o MarshalMembers(m, Tail(keys))

MarshalElems(a) ==
    IF a = <<>> THEN <<>>
    ELSE MarshalToks(Head(a)) \o (IF Len(a) > 1 THEN <<Comma>> ELSE <<>>)
            \o MarshalElems(Tail(a))

\* json.Marshal(v).
Marshal(v) == Bytes(MarshalToks(v))

----------------------------------------------------------------------------
(* The configuration (init) and the prompt rewriter (modifyRequestBody) *)

K_messages == <<"m", "e", "s", "s", "a", "g", "e", "s">>
K_content  == <<"c", "o", "n", "t", "e", "n", "t">>
K_model    == <<"m", "o", "d", "e", "l">>
K_role     == <<"r", "o", "l", "e">>
K_error    == <<"e", "r", "r", "o", "r">>
K_choices  == <<"c", "h", "o", "i", "c", "e", "s">>
K_message  == <<"m", "e", "s", "s", "a", "g", "e">>

\* The keys of a table in file order.
TableKeys(table) == [i \in 1..Len(table) |-> table[i].keyword]

\* json.Unmarshal(configFile, &config) for prompt_modifications: the pairs of
\* the file go into a Go map, which keeps no order (a repeated keyword keeps
\* its last replacement).
LoadModifications(table) ==
    [k \in {table[i].keyword : i \in 1..Len(table)} |->
        LET last == CHOOSE i \in 1..Len(table) :
                        /\ table[i].keyword = k
                        /\ \A j \in (i + 1)..Len(table) : table[j].keyword # k
        IN  table[last].replacement]

\* The orders in which a range over a Go map with these keys can run.
RangeOrders(keys) ==
    {o \in [1..Cardinality(keys) -> keys] :
        \A i, j \in 1..Cardinality(keys) : i # j => o[i] # o[j]}

RECURSIVE ApplyModifications(_, _, _)
\* The loop over config.PromptModifications on one content, the map ranged
\* over in the given order.
ApplyModifications(content, mods, order) ==
    IF order = <<>> THEN content
    ELSE ApplyModifications(ReplaceAll(content, Head(order), mods[Head(order)]),
                            mods, Tail(order))

\* A line of logger: its kind, the text it prints and, for the lines that
\* print a response, the status code.
LogEntry(k, v) == [k |-> k, v |-> v, status |-> 0]
StatusEntry(k, status, v) == [k |-> k, v |-> v, status |-> status]

\* message["content"].(string) succeeds.
HasStringContent(msg) ==
    /\ msg.t = "obj"
    /\ K_content \in DOMAIN msg.v
    /\ msg.v[K_content].t = "str"

\* The body of the loop over messages for one element.
RewriteMessage(msg, mods, order) ==
    IF HasStringContent(msg)
    THEN VObj([msg.v EXCEPT ![K_content] =
                  VStr(ApplyModifications(msg.v[K_content].v, mods, order))])
    ELSE msg

\* What the loop logs for one element: the original prompt, and the modified
\* one if it differs.
MessageLog(msg, mods, order) ==
    IF HasStringContent(msg)
    THEN LET content == msg.v[K_content].v
             modified == ApplyModifications(content, mods, order)
         IN  <<LogEntry("originalPrompt", content)>>
                 \o (IF modified # content
                     THEN <<LogEntry("modifiedPrompt", modified)>> ELSE <<>>)
    ELSE <<>>

RECURSIVE ConcatAll(_)
ConcatAll(ss) == IF ss = <<>> THEN <<>> ELSE Head(ss) \o ConcatAll(Tail(ss))

\* request["messages"].([]interface{}) succeeds.
HasMessages(request) ==
    /\ request.t = "obj"
    /\ K_messages \in DOMAIN request.v
    /\ request.v[K_messages].t = "arr"

\* The messages of a decoded request (none when it has no messages array).
MessagesOf(request) ==
    IF HasMessages(request) THEN request.v[K_messages].v ELSE <<>>

\* The number of messages modifyRequestBody loops over for a body.
NumMessages(body) ==
    LET u == Unmarshal(body)
    IN  IF u.err THEN 0 ELSE Len(MessagesOf(u.v))

\* The decoded request after the loop over its messages; orders[i] is the
\* order in which the range over config.PromptModifications runs for message
\* i.
RewriteRequest(request, mods, orders) ==
    LET messages == MessagesOf(request)
        rewritten == [i \in 1..Len(messages) |->
                         RewriteMessage(messages[i], mods, orders[i])]
    IN  IF HasMessages(request)
        THEN VObj([request.v EXCEPT ![K_messages] = VArr(rewritten)])
        ELSE request

\* What the loop over the messages logs.
RewriteLog(request, mods, orders) ==
    LET messages == MessagesOf(request)
    IN  ConcatAll([i \in 1..Len(messages) |->
                      MessageLog(messages[i], mods, orders[i])])

\* A rewriter that hands back the original bytes when no content changed.
modifyRequestBodyKeepUnchanged(body, mods, orders) ==
    LET u == Unmarshal(body)
    IN  IF u.err
        THEN [body |-> body, log |-> <<LogEntry("requestParseError", <<>>)>>]
        ELSE [body |-> IF Marshal(RewriteRequest(u.v, mods, orders)) = Marshal(u.v)
                       THEN body ELSE Marshal(RewriteRequest(u.v, mods, orders)),
              log  |-> RewriteLog(u.v, mods, orders)]

\* A rewriter that returns no bytes when the body does not parse.
modifyRequestBodyDropInvalid(body, mods, orders) ==
    LET u == Unmarshal(body)
    IN  IF u.err
        THEN [body |-> <<>>, log |-> <<LogEntry("requestParseError", <<>>)>>]
        ELSE [body |-> Marshal(RewriteRequest(u.v, mods, orders)),
              log  |-> RewriteLog(u.v, mods, orders)]

\* modifyRequestBody(body): the new body and the log entries written.  A body
\* that does not decode is returned as it is.  (json.Marshal cannot fail on a
\* value json.Unmarshal produced.)
modifyRequestBody(body, mods, orders) ==
    LET u == Unmarshal(body)
    IN  IF u.err
        THEN [body |-> body, log |-> <<LogEntry("requestParseError", <<>>)>>]
        ELSE [body |-> Marshal(RewriteRequest(u.v, mods, orders)),
              log  |-> RewriteLog(u.v, mods, orders)]

----------------------------------------------------------------------------
(* gin's ResponseWriter over the net/http response *)

\* http.Header: Get gives the first value of a header, "" when it has none.
HeaderGet(values) == IF values = <<>> THEN "" ELSE values[1]

\* The headers of the model: the values of Content-Type, Cache-Control,
\* Connection and Transfer-Encoding, the Content-Length (-1: none), and the
\* names of the Access-Control-Allow-* headers an upstream response brought.
NoHeader ==
    [ctype |-> <<>>, clen |-> -1, cache |-> <<>>, conn |-> <<>>, te |-> <<>>,
     cors |-> {}]

\* What goes on the wire when the header is sent: the status and the header.
SentOf(status, h) ==
    [status |-> status, ctype |-> h.ctype, clen |-> h.clen, cache |-> h.cache,
     conn |-> h.conn, te |-> h.te, cors |-> h.cors]

\* c.Writer before the handler touches it: gin's status is 200 and nothing is
\* sent.  header is the header map, sent what went on the wire with the status
\* line (status 0: nothing yet), body the body bytes the client was sent.
NewWriter ==
    [status |-> 200, written |-> FALSE, header |-> NoHeader,
     sent |-> SentOf(0, NoHeader), body |-> <<>>]

\* gin responseWriter.WriteHeader: records the code; nothing once written.
GinWriteHeader(w, code) ==
    IF code > 0 /\ w.status # code /\ ~w.written
    THEN [w EXCEPT !.status = code] ELSE w

\* gin responseWriter.WriteHeaderNow: sends status and headers, once.
GinWriteHeaderNow(w) ==
    IF w.written THEN w
    ELSE [w EXCEPT !.written = TRUE,
                   !.sent = SentOf(w.status, w.header)]

\* bodyAllowedForStatus of gin and net/http.
BodyAllowedForStatus(status) ==
    ~(status \in 100..199 \/ status = 204 \/ status = 304)

\* net/http response.Write after the header is sent: a write the status does
\* not allow, or that goes past the declared Content-Length, is refused whole.
NetWrite(w, b) ==
    IF ~BodyAllowedForStatus(w.sent.status) THEN w
    ELSE IF w.sent.clen # -1 /\ Len(w.body) + Len(b) > w.sent.clen THEN w
    ELSE [w EXCEPT !.body = @ \o b]

\* gin responseWriter.Write.
GinWrite(w, b) == NetWrite(GinWriteHeaderNow(w), b)

\* c.Render, under c.JSON and c.Data: the status, the content type if the
\* header has none yet, then the body if the status allows one.
Render(w, code, ctype, data) ==
    LET w1 == GinWriteHeader(w, code)
        w2 == IF w1.header.ctype = <<>>
              THEN [w1 EXCEPT !.header.ctype = <<ctype>>] ELSE w1
    IN  IF ~BodyAllowedForStatus(code) THEN GinWriteHeaderNow(w2)
        ELSE GinWrite(w2, data)

\* The handler returns: gin sends the header if nothing was written.
HandlerReturns(w) == GinWriteHeaderNow(w)

\* gin.H{"error": <message>} as c.JSON writes it; the message (Chinese for
\* "internal server error") stands here as one character.
ErrorPayload == Marshal(VObj(Put(EmptyMap, K_error, VStr(<<"E">>))))

----------------------------------------------------------------------------
(* Inputs *)

\* Bounds of the model.
MaxContentLen == 2      \* bytes in a message's content
MaxMessages == 2        \* messages in a chat body
MaxTableLen == 2        \* pairs in prompt_modifications
MaxChunks == 2          \* reads the relay makes of an upstream body
MaxStreamLines == 2     \* lines in an upstream event stream
MaxReadLen == 13        \* bytes one read of an event stream returns

\* All byte strings over chars of length at most n.
RECURSIVE StringsUpTo(_, _)
StringsUpTo(chars, n) ==
    IF n = 0 THEN {<<>>}
    ELSE LET shorter == StringsUpTo(chars, n - 1)
         IN  shorter \cup {Append(s, c) : s \in shorter, c \in chars}

\* All sequences over S of length at most n.
SeqsUpTo(S, n) == UNION {[1..k -> S] : k \in 0..n}

RECURSIVE Join(_, _)
\* The lexeme sequences parts, a comma between two of them.
Join(parts, sep) ==
    IF parts = <<>> THEN <<>>
    ELSE IF Len(parts) = 1 THEN Head(parts)
    ELSE Head(parts) \o sep \o Join(Tail(parts), sep)

\* One chat message with the given content, keys sorted or as clients write
\* them (role first).
MessageToks(content, layout) ==
    IF layout = "client"
    THEN <<LBrace, Str(K_role), Colon, Str(<<"u">>), Comma,
           Str(K_content), Colon, Str(content), RBrace>>
    ELSE <<LBrace, Str(K_content), Colon, Str(content), Comma,
           Str(K_role), Colon, Str(<<"u">>), RBrace>>

\* A chat request: "sorted" is the form json.Marshal writes, "client" has
\* model before messages and role before content, "spaced" is the sorted form
\* with a space after the colon of messages.
ChatBody(contents, layout) ==
    LET msgs == Join([i \in 1..Len(contents) |-> MessageToks(contents[i], layout)],
                     <<Comma>>)
        messages == <<Str(K_messages), Colon>>
                        \o (IF layout = "spaced" THEN <<Ws>> ELSE <<>>)
                        \o <<LBrack>> \o msgs \o <<RBrack>>
        model == <<Str(K_model), Colon, Str(<<"m">>)>>
    IN  Bytes(<<LBrace>>
               \o (IF layout = "client" THEN model \o <<Comma>> \o messages
                   ELSE messages \o <<Comma>> \o model)
               \o <<RBrace>>)

\* A chat body cut short: not valid JSON.
TruncatedBody(contents) ==
    LET b == ChatBody(contents, "sorted") IN SubSeq(b, 1, Len(b) - 1)

\* Valid JSON that is no object, a nil map, an object with no messages, one
\* whose messages is no array, and one whose messages have no string content.
ArrayBody == Bytes(<<LBrack, Str(<<"a">>), RBrack>>)
NullBody == Null
NoMessagesBody == Bytes(<<LBrace, Str(K_model), Colon, Str(<<"a">>), RBrace>>)
MessagesNotArrayBody == Bytes(<<LBrace, Str(K_messages), Colon, Str(<<"a">>), RBrace>>)
K_seed == <<"s", "e", "e", "d">>
\* A chat body with a number field at the top level and in its message: the
\* numbers are n.
NumberBody(n) ==
    Bytes(<<LBrace, Str(K_messages), Colon, LBrack,
            LBrace, Str(K_content), Colon, Str(<<"a">>), Comma,
            Str(K_seed), Colon, Lit(n), RBrace,
            RBrack, Comma, Str(K_seed), Colon, Lit(n), RBrace>>)
StructuredContentBody ==
    Bytes(<<LBrace, Str(K_messages), Colon, LBrack,
            LBrace, Str(K_content), Colon, LBrack, Str(<<"a">>), RBrack, RBrace,
            Comma, Str(<<"a">>), RBrack, RBrace>>)

ContentChars == {"a", "b"}
Keywords == {<<"a">>, <<"b">>, <<"a", "b">>}
Replacements == {<<>>, <<"b", "a">>}

\* The prompt_modifications a config.json can hold: pairs with distinct
\* keywords, in file order.
Tables ==
    {t \in SeqsUpTo([keyword : Keywords, replacement : Replacements], MaxTableLen) :
        \A i, j \in 1..Len(t) : i # j => t[i].keyword # t[j].keyword}

Pair(k, r) == [keyword |-> k, replacement |-> r]

P_chat == <<"/", "v", "1", "/", "c", "h", "a", "t">>
P_stream == <<"/", "v", "1", "/", "s", "t", "r", "e", "a", "m">>
P_upstream == <<"/", "u", "p", "s", "t", "r", "e", "a", "m">>
StreamMarker == <<"/", "s", "t", "r", "e", "a", "m">>
Bearer == <<"B", "e", "a", "r", "e", "r", " ">>

Methods == {"GET", "POST", "OPTIONS"}
Paths == {P_chat, P_stream, P_upstream}
\* An Accept header value is the list of its media ranges: none, the event
\* stream type alone, and the event stream type followed by */*.
EventStreamType == "text/event-stream"
Accepts == {<<>>, <<EventStreamType>>, <<EventStreamType, "*/*">>}
Authorizations == {<<>>, Bearer \o <<"u">>}

\* The requests of the handler's specification.
Requests ==
    [method : Methods, path : Paths, accept : Accepts, auth : Authorizations,
     body : {<<>>, TruncatedBody(<<<<"a">>>>), ChatBody(<<<<"a">>>>, "sorted"),
             ChatBody(<<<<"a", "b">>>>, "client")},
     readErr : BOOLEAN]

NoRequest ==
    [n |-> 0, host |-> "", method |-> "", path |-> <<>>, auth |-> <<>>,
     body |-> <<>>, contentLength |-> 0]

\* resp.chunks are the reads of the upstream body the copy loop has still to
\* make, resp.read the bytes it has read and written so far, and resp.eof says
\* that the upstream body has been read to its end.
NoResponse ==
    [status |-> 0, header |-> NoHeader, chunks |-> <<>>, read |-> <<>>,
     eof |-> FALSE, failed |-> FALSE,
     upstream |-> [status |-> 0, ctype |-> "", hasLen |-> FALSE, cors |-> {},
                   chunks |-> <<>>]]

\* init(): the configuration is read once, before any request.
LoadConfig(table) ==
    [OpenAIAPIKey |-> <<"s", "k">>, PromptModifications |-> LoadModifications(table)]

\* url.Parse(config.OpenAIAPIURL): the host and the path of openai_api_url.
\* The upstream URLs of the model have one host and no path, the path "/" or
\* the path "/api".
UpstreamHost == "upstream"
P_api == <<"/", "a", "p", "i">>
URLPaths == {<<>>, <<"/">>, P_api}
ParseURL(path) == [host |-> UpstreamHost, path |-> path]

InitAt(tables, requests, paths) ==
    /\ configFile \in tables
    /\ config = LoadConfig(configFile)
    /\ openAIURL \in {ParseURL(p) : p \in paths}
    /\ parked = <<>>
    /\ req \in requests
    /\ pc = "start"
    /\ outreq = NoRequest
    /\ relay = [stream |-> 0, buffered |-> 0]
    /\ resp = NoResponse
    /\ writer = NewWriter
    /\ capture = [body |-> <<>>, statusCode |-> 0]
    /\ log = <<>>

\* The same with openai_api_url a URL with no path.
InitWith(tables, requests) == InitAt(tables, requests, {<<>>})

Init == InitWith({<<>>, <<Pair(<<"a">>, <<"b">>), Pair(<<"b">>, <<"c">>)>>}, Requests)

----------------------------------------------------------------------------
(* handleProxy *)

\* The choices of range order modifyRequestBody can make for a body.
RangeChoices(body) ==
    [1..NumMessages(body) -> RangeOrders(DOMAIN config.PromptModifications)]

\* The log lines of handleProxy up to the request line, for a body read
\* without error and rewritten to m.
RequestLog(m) ==
    <<LogEntry("received", <<>>), LogEntry("headers", <<>>)>>
        \o m.log \o <<LogEntry("request", req.body)>>

\* A classification that looks at the path alone.
IsStreamRequestPathOnly(r) == Contains(r.path, StreamMarker)

\* isStreamRequest: the path contains "/stream", or the Accept header value
\* is the string "text/event-stream" (a value listing more than that media
\* range is another string).
IsStreamRequest(r) ==
    Contains(r.path, StreamMarker) \/ r.accept = <<EventStreamType>>

\* A handler that goes on after a failed read.
ReadErrorIgnored(r) == FALSE

\* err != nil after io.ReadAll(c.Request.Body).
ReadFails(r) == r.readErr

\* A handler with no OPTIONS branch.
IsOptionsNever(r) == FALSE

\* c.Request.Method == "OPTIONS".
IsOptions(r) == r.method = "OPTIONS"

\* singleJoiningSlash(a, b) of net/http/httputil, which the director of
\* NewSingleHostReverseProxy(openAIURL) applies to the path of the target and
\* the path of the request.
SingleJoiningSlash(a, b) ==
    LET aslash == a # <<>> /\ a[Len(a)] = "/"
        bslash == b # <<>> /\ Head(b) = "/"
    IN  IF aslash /\ bslash THEN a \o Tail(b)
        ELSE IF ~aslash /\ ~bslash THEN a \o <<"/">> \o b
        ELSE a \o b

\* A Director that sends every request to the path of the upstream URL.
DirectorTargetPath(r, body, cfg) ==
    [n |-> 1, host |-> openAIURL.host, method |-> r.method,
     path |-> openAIURL.path,
     auth |-> IF r.auth # <<>> THEN r.auth ELSE Bearer \o cfg.OpenAIAPIKey,
     body |-> body, contentLength |-> Len(body)]

\* A request that keeps the content length of the inbound body.
DirectorInboundLength(r, body, cfg) ==
    [n |-> 1, host |-> openAIURL.host, method |-> r.method,
     path |-> SingleJoiningSlash(openAIURL.path, r.path),
     auth |-> IF r.auth # <<>> THEN r.auth ELSE Bearer \o cfg.OpenAIAPIKey,
     body |-> body, contentLength |-> Len(r.body)]

\* A Director that always sets the configured key.
DirectorDefaultOnly(r, body, cfg) ==
    [n |-> 1, host |-> openAIURL.host, method |-> r.method,
     path |-> SingleJoiningSlash(openAIURL.path, r.path),
     auth |-> Bearer \o cfg.OpenAIAPIKey,
     body |-> body, contentLength |-> Len(body)]

\* proxy.Director on the request handleProxy hands to proxy.ServeHTTP: the
\* default director joins the path of openAIURL and the path of the request,
\* the host is openAIURL's, method, body and content length are c.Request's,
\* and Authorization is the inbound header if it is not empty, "Bearer " and
\* the configured key if it is.
Director(r, body, cfg) ==
    [n |-> 1, host |-> openAIURL.host, method |-> r.method,
     path |-> SingleJoiningSlash(openAIURL.path, r.path),
     auth |-> IF r.auth # <<>> THEN r.auth ELSE Bearer \o cfg.OpenAIAPIKey,
     body |-> body, contentLength |-> Len(body)]

\* io.ReadAll(c.Request.Body) fails: 500 and return.
HandleProxyReadError ==
    /\ pc = "start"
    /\ ReadFails(req)
    /\ log' = log \o <<LogEntry("received", <<>>), LogEntry("headers", <<>>),
                       LogEntry("readError", <<>>)>>
    /\ writer' = HandlerReturns(Render(writer, 500, "application/json; charset=utf-8",
                                       ErrorPayload))
    /\ pc' = "done"
    /\ UNCHANGED <<shared, req, outreq, relay, resp, capture>>

\* An OPTIONS request: the body is read and rewritten, then 200 and return.
HandleProxyOptions ==
    /\ pc = "start"
    /\ ~ReadFails(req)
    /\ IsOptions(req)
    /\ \E orders \in RangeChoices(req.body) :
          log' = log \o RequestLog(modifyRequestBody(req.body,
                                      config.PromptModifications, orders))
    /\ writer' = HandlerReturns(GinWriteHeader(writer, 200))
    /\ pc' = "done"
    /\ UNCHANGED <<shared, req, outreq, relay, resp, capture>>

\* A streaming request: handleStreamRequest sets the event-stream headers and
\* the status and calls proxy.ServeHTTP, which sends the request upstream.
HandleProxyStream ==
    /\ pc = "start"
    /\ ~ReadFails(req)
    /\ ~IsOptions(req)
    /\ IsStreamRequest(req)
    /\ \E orders \in RangeChoices(req.body) :
          LET m == modifyRequestBody(req.body, config.PromptModifications, orders)
          IN  /\ log' = log \o RequestLog(m)
              /\ outreq' = [Director(req, m.body, config) EXCEPT !.n = outreq.n + 1]
    /\ relay' = [relay EXCEPT !.stream = @ + 1]
    /\ writer' = GinWriteHeader(
                    [writer EXCEPT !.header.ctype = <<"text/event-stream">>,
                                   !.header.cache = <<"no-cache">>,
                                   !.header.conn = <<"keep-alive">>,
                                   !.header.te = <<"chunked">>], 200)
    /\ pc' = "roundtrip"
    /\ UNCHANGED <<shared, req, resp, capture>>

\* Any other request: handleNonStreamRequest wraps c.Writer in a
\* responseBodyWriter and calls proxy.ServeHTTP.
HandleProxyBuffered ==
    /\ pc = "start"
    /\ ~ReadFails(req)
    /\ ~IsOptions(req)
    /\ ~IsStreamRequest(req)
    /\ \E orders \in RangeChoices(req.body) :
          LET m == modifyRequestBody(req.body, config.PromptModifications, orders)
          IN  /\ log' = log \o RequestLog(m)
              /\ outreq' = [Director(req, m.body, config) EXCEPT !.n = outreq.n + 1]
    /\ relay' = [relay EXCEPT !.buffered = @ + 1]
    /\ pc' = "roundtrip"
    /\ UNCHANGED <<shared, req, resp, writer, capture>>

HandleProxy ==
    \/ HandleProxyReadError
    \/ HandleProxyOptions
    \/ HandleProxyStream
    \/ HandleProxyBuffered

----------------------------------------------------------------------------
(* streamResponseWriter.Write *)

DataPrefix == <<"d", "a", "t", "a", ":", " ">>
DoneSentinel == <<"[", "D", "O", "N", "E", "]">>
Newline == "\n"

RECURSIVE SplitLines(_)
\* bytes.Split(p, "\n").
SplitLines(p) ==
    LET n == RunLen(p, {Newline})
    IN  IF n = Len(p) THEN <<p>>
        ELSE <<SubSeq(p, 1, n)>> \o SplitLines(SubSeq(p, n + 2, Len(p)))

RECURSIVE TrimLeft(_)
TrimLeft(s) == IF s # <<>> /\ Head(s) \in WsChars THEN TrimLeft(Tail(s)) ELSE s

RECURSIVE TrimRight(_)
TrimRight(s) ==
    IF s # <<>> /\ s[Len(s)] \in WsChars
    THEN TrimRight(SubSeq(s, 1, Len(s) - 1)) ELSE s

\* bytes.TrimSpace.
TrimSpace(s) == TrimRight(TrimLeft(s))

\* bytes.TrimPrefix.
TrimPrefix(s, prefix) ==
    IF HasPrefix(s, prefix) THEN SubSeq(s, Len(prefix) + 1, Len(s)) ELSE s

\* What the loop of Write logs for one line of p.
LineLog(rawLine) ==
    LET line == TrimSpace(rawLine)
        trimmedLine == TrimPrefix(line, DataPrefix)
    IN  IF line = <<>> THEN <<>>
        ELSE IF trimmedLine = DoneSentinel THEN <<LogEntry("streamDone", <<>>)>>
        ELSE IF Unmarshal(trimmedLine).err
             THEN <<LogEntry("streamParseError", <<>>)>>
        ELSE <<LogEntry("streamChunk", trimmedLine)>>

RECURSIVE StreamWriteLogUntilError(_)
\* A Write whose loop ends at the first line that does not parse.
StreamWriteLogUntilError(p) ==
    LET lines == SplitLines(p)
        first == LineLog(Head(lines))
        rest == IF Len(lines) = 1 THEN <<>>
                ELSE StreamWriteLogUntilError(SubSeq(p, Len(Head(lines)) + 2, Len(p)))
    IN  IF first # <<>> /\ first[1].k = "streamParseError" THEN first
        ELSE first \o rest

\* What Write(p) logs.
StreamWriteLog(p) ==
    LET lines == SplitLines(p)
    IN  ConcatAll([i \in 1..Len(lines) |-> LineLog(lines[i])])

\* A Write that forwards the trimmed lines instead of p.
StreamWriteTrimmed(p) ==
    LET lines == SplitLines(p)
    IN  ConcatAll([i \in 1..Len(lines) |-> TrimSpace(lines[i])])

\* What Write(p) hands to the ResponseWriter under it.
StreamWriteBytes(p) == p

----------------------------------------------------------------------------
(* proxy.ServeHTTP after the request is sent, logResponse, and the relays *)

\* The reply handleNonStreamRequest logs for a response body:
\* choices[0].message.content when every step is there, a parse error when the
\* body is no JSON object, else nothing.
ReplyLog(body) ==
    LET u == Unmarshal(body)
    IN  IF u.err THEN <<LogEntry("replyParseError", <<>>)>>
        ELSE IF /\ u.v.t = "obj"
                /\ K_choices \in DOMAIN u.v.v
                /\ u.v.v[K_choices].t = "arr"
                /\ Len(u.v.v[K_choices].v) > 0
                /\ u.v.v[K_choices].v[1].t = "obj"
                /\ K_message \in DOMAIN u.v.v[K_choices].v[1].v
                /\ u.v.v[K_choices].v[1].v[K_message].t = "obj"
                /\ HasStringContent(u.v.v[K_choices].v[1].v[K_message])
             THEN <<LogEntry("reply",
                             u.v.v[K_choices].v[1].v[K_message].v[K_content].v)>>
        ELSE <<>>

\* The final emit of handleNonStreamRequest: c.Data with the captured status,
\* the Content-Type of the response header and the captured body.
FinalEmit(w, cap) ==
    Render(w, cap.statusCode, HeaderGet(w.header.ctype), cap.body)

\* handleNonStreamRequest after proxy.ServeHTTP has returned.
NonStreamReturn(w, cap) ==
    [writer |-> HandlerReturns(FinalEmit(w, cap)),
     log |-> <<StatusEntry("response", cap.statusCode, cap.body)>>
                \o ReplyLog(cap.body)]

\* The proxy's ErrorHandler: 502 through the relay's writer, then ServeHTTP
\* returns to the relay.  entries are what logResponse logged before.  (The
\* ErrorHandler prints the error with the log package, on the standard error
\* of the process; nothing of it goes to logger.)
ProxyError(entries) ==
    LET cap == IF relay.buffered > 0
               THEN [capture EXCEPT !.statusCode = 502] ELSE capture
        w == GinWriteHeader(writer, 502)
    IN  /\ capture' = cap
        /\ IF relay.buffered > 0
           THEN /\ writer' = NonStreamReturn(w, cap).writer
                /\ log' = log \o entries \o NonStreamReturn(w, cap).log
           ELSE /\ writer' = HandlerReturns(w)
                /\ log' = log \o entries
        /\ pc' = "done"

\* The dispatch to upstream fails: no response comes (resp.failed).
UpstreamFails ==
    /\ pc = "roundtrip"
    /\ ProxyError(<<>>)
    /\ resp' = [resp EXCEPT !.failed = TRUE]
    /\ UNCHANGED <<shared, req, outreq, relay>>

RChat ==
    Bytes(<<LBrace, Str(K_choices), Colon, LBrack, LBrace, Str(K_message), Colon,
            LBrace, Str(K_content), Colon, Str(<<"a">>), RBrace, RBrace, RBrack,
            RBrace>>)

CorsHeaders ==
    {"Access-Control-Allow-Origin", "Access-Control-Allow-Methods",
     "Access-Control-Allow-Headers"}

\* The upstream responses of the handler's specification: a status, a
\* Content-Type, a Content-Length or none, the Access-Control-Allow-* headers
\* it carries (none or all three), and the body as the reads that deliver
\* it.  A 204 has no body.
Responses ==
    {r \in [status : {200, 204, 404},
            ctype : {"application/json", "text/event-stream"},
            hasLen : BOOLEAN,
            cors : {{}, CorsHeaders},
            chunks : SeqsUpTo({RChat, <<"x">>}, MaxChunks)] :
        r.status = 204 => r.chunks = <<>>}

\* A logResponse that leaves the header as it came.
DelCorsNone(names) == names

\* resp.Header.Del of the three Access-Control-Allow-* headers.
DelCors(names) == names \ CorsHeaders

\* logResponse(resp) on a response with the given Content-Type and body
\* reads: an event stream is left as it is; any other body is read whole, to
\* its end (readOk says whether that read succeeds), and handed on as one
\* buffer, which the copy loop takes in one read.
logResponse(status, ctype, chunks, readOk) ==
    IF ctype = "text/event-stream"
    THEN [err |-> FALSE, eof |-> FALSE, chunks |-> chunks,
          log |-> <<StatusEntry("streamResponseStart", status, <<>>)>>]
    ELSE IF ~readOk
    THEN [err |-> TRUE, eof |-> FALSE, chunks |-> <<>>,
          log |-> <<LogEntry("responseReadError", <<>>)>>]
    ELSE [err |-> FALSE, eof |-> TRUE,
          chunks |-> IF ConcatAll(chunks) = <<>> THEN <<>> ELSE <<ConcatAll(chunks)>>,
          log |-> <<StatusEntry("responseBody", status, ConcatAll(chunks))>>]

\* Upstream answers and logResponse fails reading the body: the proxy's
\* ErrorHandler runs.
UpstreamBodyUnreadable ==
    /\ pc = "roundtrip"
    /\ \E r \in Responses :
          /\ logResponse(r.status, r.ctype, r.chunks, FALSE).err
          /\ ProxyError(logResponse(r.status, r.ctype, r.chunks, FALSE).log)
    /\ UNCHANGED <<shared, req, outreq, relay, resp>>

\* Upstream answers: logResponse, which first deletes the
\* Access-Control-Allow-* headers of the response; then the proxy adds the
\* response header to the writer's and writes the status through the relay's
\* writer.  resp.upstream is the response as upstream sent it.
UpstreamRespondsWith(responses) ==
    /\ pc = "roundtrip"
    /\ \E r \in responses :
          LET lr == logResponse(r.status, r.ctype, r.chunks, TRUE)
              clen == IF r.hasLen THEN Len(ConcatAll(r.chunks)) ELSE -1
              header == [NoHeader EXCEPT !.ctype = <<r.ctype>>, !.clen = clen,
                                         !.cors = DelCors(r.cors)]
          IN  /\ resp' = [status |-> r.status, header |-> header,
                          chunks |-> lr.chunks, read |-> <<>>, eof |-> lr.eof,
                          failed |-> FALSE, upstream |-> r]
              /\ log' = log \o lr.log
              /\ writer' = GinWriteHeader(
                              [writer EXCEPT !.header.ctype = @ \o header.ctype,
                                             !.header.clen = header.clen,
                                             !.header.cors = @ \cup header.cors],
                              r.status)
              /\ capture' = IF relay.buffered > 0
                            THEN [capture EXCEPT !.statusCode = r.status]
                            ELSE capture
    /\ pc' = "copy"
    /\ UNCHANGED <<shared, req, outreq, relay>>

UpstreamResponds == UpstreamRespondsWith(Responses)

\* The copy loop reads the next part of the body and writes it to the
\* streaming relay's writer: streamResponseWriter.Write.
StreamCopy ==
    /\ pc = "copy"
    /\ relay.stream > 0
    /\ resp.chunks # <<>>
    /\ LET p == Head(resp.chunks)
       IN  /\ log' = log \o StreamWriteLog(p)
           /\ writer' = GinWrite(writer, StreamWriteBytes(p))
           /\ resp' = [resp EXCEPT !.chunks = Tail(@), !.read = @ \o p]
    /\ UNCHANGED <<shared, req, pc, outreq, relay, capture>>

\* The same for the buffered relay: responseBodyWriter.Write.
BufferedCopy ==
    /\ pc = "copy"
    /\ relay.buffered > 0
    /\ resp.chunks # <<>>
    /\ LET b == Head(resp.chunks)
       IN  /\ capture' = [capture EXCEPT !.body = @ \o b]
           /\ writer' = GinWrite(writer, b)
           /\ resp' = [resp EXCEPT !.chunks = Tail(@), !.read = @ \o b]
    /\ UNCHANGED <<shared, req, pc, outreq, relay, log>>

\* The upstream body has ended: proxy.ServeHTTP returns to
\* handleStreamRequest, which returns.
StreamCopyEnds ==
    /\ pc = "copy"
    /\ relay.stream > 0
    /\ resp.chunks = <<>>
    /\ writer' = HandlerReturns(writer)
    /\ resp' = [resp EXCEPT !.eof = TRUE]
    /\ pc' = "done"
    /\ UNCHANGED <<shared, req, outreq, relay, capture, log>>

\* The upstream body has ended: proxy.ServeHTTP returns to
\* handleNonStreamRequest, which logs the capture and emits it with c.Data.
BufferedCopyEnds ==
    /\ pc = "copy"
    /\ relay.buffered > 0
    /\ resp.chunks = <<>>
    /\ writer' = NonStreamReturn(writer, capture).writer
    /\ log' = log \o NonStreamReturn(writer, capture).log
    /\ resp' = [resp EXCEPT !.eof = TRUE]
    /\ pc' = "done"
    /\ UNCHANGED <<shared, req, outreq, relay, capture>>

Next ==
    \/ HandleProxy
    \/ UpstreamFails
    \/ UpstreamBodyUnreadable
    \/ UpstreamResponds
    \/ StreamCopy
    \/ BufferedCopy
    \/ StreamCopyEnds
    \/ BufferedCopyEnds

Spec == Init /\ [][Next]_vars

----------------------------------------------------------------------------
(* The rewriter on many bodies and tables: POST requests to the chat path,  *)
(* followed up to the dispatch.                                            *)

\* The contents a message can have, those of the truncated bodies, and those
\* of the body with k messages.
Contents == StringsUpTo(ContentChars, MaxContentLen)
FewContents == {<<"a">>, <<"a", "b">>}
MixedContents(k) == [i \in 1..k |-> IF i % 2 = 1 THEN <<"a">> ELSE <<"a", "b">>]

RewriteBodies ==
    {ChatBody(<<c>>, layout) : c \in Contents, layout \in {"sorted", "client", "spaced"}}
        \cup {ChatBody(MixedContents(k), "sorted") : k \in 0..MaxMessages}
        \cup {TruncatedBody(<<c>>) : c \in FewContents}
        \cup {<<>>, ArrayBody, NullBody, NoMessagesBody, MessagesNotArrayBody,
              StructuredContentBody, NumberBody(<<"1">>), NumberBody(BigInt)}

RewriteRequests ==
    [method : {"POST"}, path : {P_chat}, accept : {<<>>}, auth : {<<>>},
     body : RewriteBodies, readErr : {FALSE}]

InitRewrite == InitWith(Tables, RewriteRequests)

NextRewrite == HandleProxyBuffered

SpecRewrite == InitRewrite /\ [][NextRewrite]_vars

----------------------------------------------------------------------------
(* The streaming relay on event streams cut into reads at any byte *)

StreamLines ==
    {DataPrefix \o DoneSentinel, DataPrefix \o <<"{", "}">>, DataPrefix \o <<"x">>,
     DataPrefix \o <<"[", "]">>, <<>>}

\* The event streams: up to MaxStreamLines lines, each ended by a newline.
Streams ==
    {ConcatAll([i \in 1..Len(ls) |-> ls[i] \o <<Newline>>]) :
        ls \in SeqsUpTo(StreamLines, MaxStreamLines)}

EventStreams ==
    [status : {200}, ctype : {"text/event-stream"}, hasLen : {FALSE}, cors : {{}},
     chunks : {IF st = <<>> THEN <<>> ELSE <<st>> : st \in Streams}]

StreamRequests ==
    [method : {"POST"}, path : {P_stream}, accept : {<<EventStreamType>>},
     auth : {<<>>}, body : {<<>>}, readErr : {FALSE}]

InitStream == InitWith({<<>>}, StreamRequests)

UpstreamStreams == UpstreamRespondsWith(EventStreams)

\* The copy loop's read returns the next n bytes of the stream, n at most
\* MaxReadLen, and they are written to the streaming relay's writer.
StreamRead ==
    /\ pc = "copy"
    /\ relay.stream > 0
    /\ resp.chunks # <<>>
    /\ \E n \in 1..MaxReadLen :
          /\ n <= Len(Head(resp.chunks))
          /\ LET p == SubSeq(Head(resp.chunks), 1, n)
                 rest == SubSeq(Head(resp.chunks), n + 1, Len(Head(resp.chunks)))
             IN  /\ log' = log \o StreamWriteLog(p)
                 /\ writer' = GinWrite(writer, StreamWriteBytes(p))
                 /\ resp' = [resp EXCEPT
                               !.chunks = IF rest = <<>> THEN Tail(@)
                                          ELSE <<rest>> \o Tail(@),
                               !.read = @ \o p]
    /\ UNCHANGED <<shared, req, pc, outreq, relay, capture>>

NextStream ==
    \/ HandleProxyStream
    \/ UpstreamStreams
    \/ StreamRead
    \/ StreamCopyEnds

SpecStream == InitStream /\ [][NextStream]_vars

----------------------------------------------------------------------------
(* The handler up to the dispatch, for upstream URLs with and without a path *)

P_models == <<"/", "v", "1", "/", "m", "o", "d", "e", "l", "s">>

ForwardRequests ==
    [method : Methods \cup {"DELETE"}, path : Paths \cup {P_models},
     accept : {<<>>, <<EventStreamType>>}, auth : Authorizations,
     body : {<<>>, ChatBody(<<<<"a">>>>, "client")}, readErr : BOOLEAN]

InitForward == InitAt({<<>>}, ForwardRequests, URLPaths)

NextForward == HandleProxy

SpecForward == InitForward /\ [][NextForward]_vars

----------------------------------------------------------------------------
(* Two requests in flight: the server runs handleProxy for each request in a
   goroutine of its own *)

\* What one call of handleProxy holds for itself: the request and its
\* gin.Context (req, writer), the proxy built for it with its Director and
\* the request it sent (outreq), the relay it chose and that relay's writer
\* (relay, capture), the response it is relaying (resp), and where it is (pc).
Context ==
    [req |-> req, pc |-> pc, outreq |-> outreq, relay |-> relay, resp |-> resp,
     writer |-> writer, capture |-> capture]

\* A context for a request whose handler has not started.
NewContext(r) ==
    [req |-> r, pc |-> "start", outreq |-> NoRequest,
     relay |-> [stream |-> 0, buffered |-> 0], resp |-> NoResponse,
     writer |-> NewWriter, capture |-> [body |-> <<>>, statusCode |-> 0]]

\* Handlers that write through one responseBodyWriter: the handler that goes
\* on finds the capture of the one that ran last.
ResumeSharedCapture(ctx) == [ctx EXCEPT !.capture = capture]

\* What a handler finds when it goes on: its own locals, as it left them.
Resume(ctx) == ctx

\* The scheduler stops the running handler and lets a waiting one go on.
\* configFile, config, openAIURL and logger's output are the process's.
Switch ==
    \E i \in DOMAIN parked :
        /\ parked' = [parked EXCEPT ![i] = Context]
        /\ req' = Resume(parked[i]).req
        /\ pc' = Resume(parked[i]).pc
        /\ outreq' = Resume(parked[i]).outreq
        /\ relay' = Resume(parked[i]).relay
        /\ resp' = Resume(parked[i]).resp
        /\ writer' = Resume(parked[i]).writer
        /\ capture' = Resume(parked[i]).capture
        /\ UNCHANGED <<configFile, config, openAIURL, log>>

\* The requests of the two handlers: a chat completion on the buffered path
\* or the streaming path, with a key of its own or none.
ConcRequests ==
    [method : {"POST"}, path : {P_chat, P_stream}, accept : {<<>>},
     auth : Authorizations, body : {ChatBody(<<<<"a">>>>, "client")},
     readErr : {FALSE}]

\* The upstream responses of the two handlers.
ConcResponses ==
    [status : {200, 404}, ctype : {"application/json", "text/event-stream"},
     hasLen : {FALSE}, cors : {CorsHeaders}, chunks : {<<RChat, <<"x">>>>}]

InitConc ==
    /\ configFile = <<Pair(<<"a">>, <<"b", "a">>)>>
    /\ config = LoadConfig(configFile)
    /\ openAIURL = ParseURL(<<>>)
    /\ \E r \in ConcRequests : parked = <<NewContext(r)>>
    /\ req \in ConcRequests
    /\ pc = "start"
    /\ outreq = NoRequest
    /\ relay = [stream |-> 0, buffered |-> 0]
    /\ resp = NoResponse
    /\ writer = NewWriter
    /\ capture = [body |-> <<>>, statusCode |-> 0]
    /\ log = <<>>

UpstreamRespondsConc == UpstreamRespondsWith(ConcResponses)

NextConc ==
    \/ HandleProxyStream
    \/ HandleProxyBuffered
    \/ UpstreamFails
    \/ UpstreamRespondsConc
    \/ StreamCopy
    \/ BufferedCopy
    \/ StreamCopyEnds
    \/ BufferedCopyEnds
    \/ Switch

SpecConc == InitConc /\ [][NextConc]_vars

----------------------------------------------------------------------------
(* Properties *)

HasLog(k) == \E i \in 1..Len(log) : log[i].k = k
CountLog(k) == Cardinality({i \in 1..Len(log) : log[i].k = k})

\* C1: every request forwarded upstream carries the inbound Authorization
\* header when that is not empty, and otherwise the default credential, which
\* is "Bearer " followed by the configured openai_api_key.
C1_Authorization ==
    outreq.n > 0 =>
        outreq.auth = (IF req.auth # <<>> THEN req.auth
                       ELSE Bearer \o config.OpenAIAPIKey)

C1_Witness ==
    /\ outreq.n > 0
    /\ req.auth = <<>>
    /\ outreq.auth = <<"B", "e", "a", "r", "e", "r", " ", "s", "k">>

\* C2: the forwarded body is the one obtained by applying the pairs of the
\* table in the table's fixed (file) order to every string content, so it is
\* the same on every run for the same body and table.
C2_FixedOrder ==
    outreq.n > 0 =>
        outreq.body =
            modifyRequestBody(req.body, config.PromptModifications,
                [i \in 1..NumMessages(req.body) |-> TableKeys(configFile)]).body

\* No string content of a message of the body contains a configured keyword.
NoKeywordIn(body) ==
    \/ Unmarshal(body).err
    \/ \A i \in 1..Len(MessagesOf(Unmarshal(body).v)) :
          LET msg == MessagesOf(Unmarshal(body).v)[i]
          IN  HasStringContent(msg) =>
                  \A k \in DOMAIN config.PromptModifications :
                      ~Contains(msg.v[K_content].v, k)

\* The string contents of the messages of a body, in order (none for a
\* message without one).
StringContents(body) ==
    LET msgs == MessagesOf(Unmarshal(body).v)
    IN  [i \in 1..Len(msgs) |->
            IF HasStringContent(msgs[i]) THEN <<msgs[i].v[K_content].v>> ELSE <<>>]

\* C3 as stated: a body that parses as JSON and whose message contents
\* contain no configured keyword is forwarded byte-identical.
C3_ByteIdentical ==
    (outreq.n > 0 /\ ValidJSON(req.body) /\ NoKeywordIn(req.body)) =>
        outreq.body = req.body

\* C3 amended: such a body, when it decodes into the request map, is forwarded
\* as json.Marshal writes the decoded request (keys sorted, no whitespace
\* between lexemes) with the same message contents, so it is byte-identical
\* exactly when the inbound body already has that form; valid JSON that does
\* not decode into the map is forwarded byte-identical.
C3_Reserialized ==
    (outreq.n > 0 /\ ValidJSON(req.body) /\ NoKeywordIn(req.body)) =>
        IF Unmarshal(req.body).err THEN outreq.body = req.body
        ELSE /\ outreq.body = Marshal(Unmarshal(req.body).v)
             /\ StringContents(outreq.body) = StringContents(req.body)
             /\ outreq.contentLength = Len(outreq.body)

C3_Witness ==
    /\ outreq.n > 0
    /\ ~Unmarshal(req.body).err
    /\ NumMessages(req.body) > 0
    /\ configFile # <<>>
    /\ NoKeywordIn(req.body)
    /\ outreq.body # req.body

\* C4 as stated: every request whose body is not valid JSON is forwarded, with
\* the body byte-identical, the parse failure logged and no rewritten prompt
\* logged.
C4_InvalidForwarded ==
    (pc # "start" /\ ~req.readErr /\ ~ValidJSON(req.body)) =>
        /\ outreq.n = 1
        /\ outreq.body = req.body
        /\ HasLog("requestParseError")
        /\ ~HasLog("modifiedPrompt")

\* C4 amended: for every request whose body is not valid JSON the parse
\* failure is logged and no rewritten prompt is logged; unless its method is
\* OPTIONS the request is forwarded, once, with the body byte-identical; an
\* OPTIONS request is not forwarded.
C4_InvalidForwardedUnlessOptions ==
    (pc # "start" /\ ~req.readErr /\ ~ValidJSON(req.body)) =>
        /\ HasLog("requestParseError")
        /\ ~HasLog("modifiedPrompt")
        /\ IF req.method = "OPTIONS" THEN outreq.n = 0
           ELSE outreq.n = 1 /\ outreq.body = req.body

C4_Witness ==
    /\ pc = "done"
    /\ req.method = "POST"
    /\ ~ValidJSON(req.body)
    /\ req.body # <<>>
    /\ configFile # <<>>
    /\ outreq.n = 1
    /\ outreq.body = req.body

\* C5: in streaming mode the bytes handed to the client are exactly the
\* bytes read from upstream so far, in order, whatever the lines are.
C5_BytesRelayed ==
    (relay.stream > 0 /\ pc \in {"copy", "done"}) => writer.body = resp.read

C5_Witness ==
    /\ pc = "done"
    /\ relay.stream > 0
    /\ HasLog("streamParseError")
    /\ HasLog("streamDone")
    /\ Len(writer.body) > Len(DataPrefix \o DoneSentinel)

\* The lines of a stream that are the sentinel line.
DoneLines(stream) ==
    {i \in 1..Len(SplitLines(stream)) :
        TrimPrefix(TrimSpace(SplitLines(stream)[i]), DataPrefix) = DoneSentinel}

\* Every line of the stream is empty or the sentinel line.
OnlyDoneLines(stream) ==
    \A i \in 1..Len(SplitLines(stream)) :
        i \in DoneLines(stream) \/ TrimSpace(SplitLines(stream)[i]) = <<>>

\* C6: however the stream is cut into writes, every "data: [DONE]" line of it
\* gets a stream-completion entry, and none gets a parse-error entry (so a
\* stream of sentinel lines alone logs no parse error).
C6_DoneLogged ==
    pc = "done" =>
        /\ CountLog("streamDone") = Cardinality(DoneLines(resp.read))
        /\ OnlyDoneLines(resp.read) => ~HasLog("streamParseError")

\* C7: in buffered mode the client gets the upstream's status and
\* Content-Type, and exactly the upstream's body bytes.
C7_BufferedPassThrough ==
    (pc = "done" /\ relay.buffered > 0 /\ resp.status # 0) =>
        /\ writer.sent.status = resp.status
        /\ HeaderGet(writer.sent.ctype) = HeaderGet(resp.header.ctype)
        /\ writer.body = resp.read

\* C8 as stated: every OPTIONS request gets 200 at once and is never
\* dispatched upstream by either relay.
C8_OptionsAlways200 ==
    req.method = "OPTIONS" =>
        /\ outreq.n = 0 /\ relay.stream = 0 /\ relay.buffered = 0
        /\ pc \in {"start", "done"}
        /\ pc = "done" => writer.sent.status = 200

\* C8 amended: no OPTIONS request is ever dispatched upstream by either
\* relay, and the handler answers it in one step: 200 if its body was read,
\* 500 if reading its body failed.
C8_OptionsNotDispatched ==
    req.method = "OPTIONS" =>
        /\ outreq.n = 0 /\ relay.stream = 0 /\ relay.buffered = 0
        /\ pc \in {"start", "done"}
        /\ pc = "done" =>
              /\ writer.sent.status = (IF req.readErr THEN 500 ELSE 200)
              /\ ~req.readErr => writer.body = <<>>

C8_Witness ==
    /\ req.method = "OPTIONS"
    /\ pc = "done"
    /\ ~req.readErr
    /\ req.body # <<>>
    /\ IsStreamRequest(req)
    /\ writer.sent.status = 200

\* C9: when reading the inbound body fails the client gets 500 with the
\* generic error payload, and nothing is dispatched: the handler returns
\* without invoking a relay.
C9_ReadFailure ==
    req.readErr =>
        /\ outreq.n = 0 /\ relay.stream = 0 /\ relay.buffered = 0
        /\ pc \in {"start", "done"}
        /\ pc = "done" =>
              /\ writer.sent.status = 500
              /\ writer.body = ErrorPayload
              /\ HasLog("readError")

C9_Witness ==
    /\ req.readErr
    /\ req.method = "POST"
    /\ pc = "done"
    /\ writer.sent.status = 500

\* C10: a request that is not OPTIONS and whose body was read invokes exactly
\* one relay, once, and is dispatched once: the streaming relay if the path
\* contains "/stream" or the Accept header value is "text/event-stream", the
\* buffered relay otherwise.
C10_OneRelay ==
    (req.method # "OPTIONS" /\ ~req.readErr /\ pc # "start") =>
        /\ relay.stream + relay.buffered = 1
        /\ outreq.n = 1
        /\ relay.stream = 1 <=>
              (Contains(req.path, StreamMarker) \/ req.accept = <<EventStreamType>>)

C10_Witness ==
    /\ pc = "done"
    /\ req.path = P_chat
    /\ req.accept = <<EventStreamType>>
    /\ relay.stream = 1
    /\ relay.buffered = 0

\* C11 as stated: every forwarded request has the method and the path of the
\* inbound request, and a request that came with no body is forwarded with an
\* empty body.
C11_SamePath ==
    outreq.n > 0 =>
        /\ outreq.method = req.method
        /\ outreq.path = req.path
        /\ req.body = <<>> => outreq.body = <<>>

\* C11, amended: every forwarded request goes to the host of the upstream URL
\* with the method of the inbound request; its path is the inbound path when
\* the upstream URL has no path (or the path "/"), and otherwise the path of
\* the upstream URL followed by the inbound path; a request that came with no
\* body is forwarded with an empty body and content length 0.
C11_JoinedPath ==
    outreq.n > 0 =>
        /\ outreq.method = req.method
        /\ outreq.host = UpstreamHost
        /\ outreq.path = IF openAIURL.path \in {<<>>, <<"/">>} THEN req.path
                          ELSE openAIURL.path \o req.path
        /\ req.body = <<>> => (outreq.body = <<>> /\ outreq.contentLength = 0)

C11_Witness ==
    /\ outreq.n > 0
    /\ req.method = "GET"
    /\ req.path = P_models
    /\ req.body = <<>>
    /\ openAIURL.path = P_api
    /\ outreq.path = P_api \o P_models
    /\ outreq.body = <<>>

\* The JSON value a text denotes, numbers as written.
ValueOf(data) == ParseValue(Lex(data), SkipWs(Lex(data), 1)).v

RECURSIVE SameValue(_, _)
\* Two JSON values are the same value.
SameValue(a, b) ==
    /\ a.t = b.t
    /\ CASE a.t = "arr" ->
                /\ Len(a.v) = Len(b.v)
                /\ \A i \in 1..Len(a.v) : SameValue(a.v[i], b.v[i])
         [] a.t = "obj" ->
                /\ DOMAIN a.v = DOMAIN b.v
                /\ \A k \in DOMAIN a.v : SameValue(a.v[k], b.v[k])
         [] OTHER -> a.v = b.v

\* Message m2 is message m but for the value of a string content.
MessageFrameKept(m, m2) ==
    IF HasStringContent(m)
    THEN /\ HasStringContent(m2)
         /\ DOMAIN m2.v = DOMAIN m.v
         /\ \A k \in DOMAIN m.v \ {K_content} : SameValue(m.v[k], m2.v[k])
    ELSE SameValue(m, m2)

\* Request b is request a but for the string contents of its messages.
FrameKept(a, b) ==
    IF HasMessages(a)
    THEN /\ HasMessages(b)
         /\ DOMAIN b.v = DOMAIN a.v
         /\ \A k \in DOMAIN a.v \ {K_messages} : SameValue(a.v[k], b.v[k])
         /\ Len(b.v[K_messages].v) = Len(a.v[K_messages].v)
         /\ \A i \in 1..Len(a.v[K_messages].v) :
                MessageFrameKept(a.v[K_messages].v[i], b.v[K_messages].v[i])
    ELSE SameValue(a, b)

\* C12: the body modifyRequestBody returns for a body that decodes differs
\* from it in nothing but the string content values of its messages: the
\* messages array keeps its length and order, every other field of every
\* message and of the body keeps its value, and a message with no string
\* content is unchanged.
C12_FrameKept ==
    (outreq.n > 0 /\ ~Unmarshal(req.body).err) =>
        /\ ValidJSON(outreq.body)
        /\ FrameKept(ValueOf(req.body), ValueOf(outreq.body))

\* C13: in streaming mode the relay has never read the upstream body to its
\* end while bytes of it are still to be written to the client, whatever the
\* Content-Type of the response: each chunk is written as it arrives.
C13_Incremental ==
    (relay.stream > 0 /\ resp.eof) => resp.chunks = <<>>

\* C14: whenever the client of a streaming request has been sent a body byte,
\* or its handler has returned, it has been sent the status 200 and the
\* headers Content-Type: text/event-stream, Cache-Control: no-cache,
\* Connection: keep-alive and Transfer-Encoding: chunked, whatever the status
\* and the headers of the upstream response.
C14_Committed200 ==
    (relay.stream > 0 /\ (writer.body # <<>> \/ pc = "done")) =>
        /\ writer.written
        /\ writer.sent.status = 200
        /\ writer.sent.ctype = <<"text/event-stream">>
        /\ writer.sent.cache = <<"no-cache">>
        /\ writer.sent.conn = <<"keep-alive">>
        /\ writer.sent.te = <<"chunked">>

\* The payloads of the lines of a write that the loop of Write tries to
\* parse: the non-empty lines, trimmed and without the "data: " prefix, that
\* are not the [DONE] sentinel.
Payloads(p) ==
    LET lines == SplitLines(p)
        payload(i) == TrimPrefix(TrimSpace(lines[i]), DataPrefix)
    IN  [i \in {k \in 1..Len(lines) : /\ TrimSpace(lines[k]) # <<>>
                                       /\ payload(k) # DoneSentinel} |-> payload(i)]

\* The number of entries of kind k that a step adds to the log.
Added(k) ==
    Cardinality({i \in (Len(log) + 1)..Len(log') : log'[i].k = k})

\* The bytes a step of the streaming relay writes.
Written == SubSeq(resp'.read, Len(resp.read) + 1, Len(resp'.read))

\* C15 as stated: in every write of the streaming relay, each line that is
\* not valid JSON adds one parse-error entry and no frame entry, each line that
\* is valid JSON adds one frame entry, whatever the other lines are, and the
\* relay goes on.
C15_ValidJSONLogged ==
    [][(relay.stream > 0 /\ pc = "copy" /\ resp'.read # resp.read) =>
          LET ps == Payloads(Written)
          IN  /\ Added("streamParseError") =
                    Cardinality({i \in DOMAIN ps : ~ValidJSON(ps[i])})
              /\ Added("streamChunk") =
                    Cardinality({i \in DOMAIN ps : ValidJSON(ps[i])})
              /\ pc' = "copy"]_vars

\* C15, amended: in every write of the streaming relay, each line that does
\* not decode as a JSON object (or null) adds one parse-error entry and no
\* frame entry, each line that does adds one frame entry, whatever the other
\* lines of the write and of earlier writes are, and the relay goes on.
C15_ObjectsLogged ==
    [][(relay.stream > 0 /\ pc = "copy" /\ resp'.read # resp.read) =>
          LET ps == Payloads(Written)
          IN  /\ Added("streamParseError") =
                    Cardinality({i \in DOMAIN ps : Unmarshal(ps[i]).err})
              /\ Added("streamChunk") =
                    Cardinality({i \in DOMAIN ps : ~Unmarshal(ps[i]).err})
              /\ Len(log') = Len(log) + Added("streamParseError")
                                + Added("streamChunk") + Added("streamDone")
              /\ pc' = "copy"]_vars

\* The stream "data: x", "data: {}" was relayed with its lines whole: one
\* parse error was logged, and one frame after it.
C15_Witness ==
    /\ relay.stream > 0
    /\ resp.read = DataPrefix \o <<"x", Newline>> \o DataPrefix \o <<"{", "}", Newline>>
    /\ CountLog("streamParseError") = 1
    /\ CountLog("streamChunk") = 1
    /\ \E i, j \in 1..Len(log) :
          /\ i < j
          /\ log[i].k = "streamParseError"
          /\ log[j].k = "streamChunk"

\* C16: when the dispatch to upstream fails, in streaming and in buffered
\* mode, the handler returns, the client is sent an error status, and the
\* failure is recorded in the log of logger: some entry is written after the
\* request line.
C16_FailureLogged ==
    (resp.failed /\ pc = "done") =>
        /\ writer.written
        /\ writer.sent.status >= 400
        /\ \E i \in 1..Len(log) : log[i].k # "request" /\
              (\E j \in 1..(i - 1) : log[j].k = "request")

C19_ContentLength ==
    outreq.n > 0 => outreq.contentLength = Len(outreq.body)

\* A body was rewritten to one of another length and forwarded with the new
\* length.
C19_Witness ==
    /\ outreq.n > 0
    /\ HasLog("modifiedPrompt")
    /\ outreq.body # <<>>
    /\ Len(outreq.body) # Len(req.body)
    /\ outreq.contentLength = Len(outreq.body)

RECURSIVE WriteAll(_, _)
\* The writer after the given buffers have been written to it in turn.
WriteAll(w, bufs) ==
    IF bufs = <<>> THEN w ELSE WriteAll(GinWrite(w, Head(bufs)), Tail(bufs))

\* The writer of a handler that serves r with nothing else going on, before
\* upstream has answered.
AloneStarted(r) ==
    IF IsStreamRequest(r)
    THEN GinWriteHeader([NewWriter EXCEPT !.header.ctype = <<"text/event-stream">>,
                                          !.header.cache = <<"no-cache">>,
                                          !.header.conn = <<"keep-alive">>,
                                          !.header.te = <<"chunked">>], 200)
    ELSE NewWriter

\* The same once the header of the upstream response up has been taken over.
AloneResponded(r, up) ==
    LET w == AloneStarted(r)
    IN  GinWriteHeader([w EXCEPT !.header.ctype = @ \o <<up.ctype>>,
                                 !.header.clen = IF up.hasLen
                                                 THEN Len(ConcatAll(up.chunks))
                                                 ELSE -1,
                                 !.header.cors = @ \cup (up.cors \ CorsHeaders)],
                       up.status)

\* The buffers the copy loop relays for up: the reads of an event stream, one
\* buffer with the whole body for anything else.
AloneBuffers(up) ==
    IF up.ctype = "text/event-stream" THEN up.chunks
    ELSE IF ConcatAll(up.chunks) = <<>> THEN <<>> ELSE <<ConcatAll(up.chunks)>>

\* The same after the first n buffers of the upstream body have been relayed.
AloneCopied(r, up, n) ==
    WriteAll(AloneResponded(r, up), SubSeq(AloneBuffers(up), 1, n))

\* The writer when the handler has returned after relaying all of up.
AloneDone(r, up) ==
    LET w == AloneCopied(r, up, Len(AloneBuffers(up)))
    IN  IF IsStreamRequest(r) THEN HandlerReturns(w)
        ELSE NonStreamReturn(w, [body |-> ConcatAll(up.chunks),
                                 statusCode |-> up.status]).writer

\* The writer when the handler has returned after upstream gave no response.
AloneFailed(r) ==
    LET w == GinWriteHeader(AloneStarted(r), 502)
    IN  IF IsStreamRequest(r) THEN HandlerReturns(w)
        ELSE NonStreamReturn(w, [body |-> <<>>, statusCode |-> 502]).writer

\* A handler is where it would be with no other request in flight: the
\* request it sent is the Director's for its own request and the rewriting of
\* its own body under the one configuration, the relay is the one its own
\* path and Accept header select, and what the client has been sent is what
\* the handler alone sends for its request and its upstream response.
AsAlone(ctx) ==
    /\ ctx.pc = "start" =>
          /\ ctx.outreq = NoRequest
          /\ ctx.writer = NewWriter
    /\ ctx.pc # "start" =>
          /\ \E orders \in RangeChoices(ctx.req.body) :
                ctx.outreq = Director(ctx.req,
                                      modifyRequestBody(ctx.req.body,
                                          config.PromptModifications, orders).body,
                                      config)
          /\ ctx.relay = IF IsStreamRequest(ctx.req)
                         THEN [stream |-> 1, buffered |-> 0]
                         ELSE [stream |-> 0, buffered |-> 1]
    /\ ctx.pc = "roundtrip" => ctx.writer = AloneStarted(ctx.req)
    /\ ctx.pc = "copy" =>
          ctx.writer = AloneCopied(ctx.req, ctx.resp.upstream,
                           Len(AloneBuffers(ctx.resp.upstream)) - Len(ctx.resp.chunks))
    /\ ctx.pc = "done" =>
          ctx.writer = IF ctx.resp.failed THEN AloneFailed(ctx.req)
                       ELSE AloneDone(ctx.req, ctx.resp.upstream)

\* C18: with two requests in flight, each handler sends the outbound request,
\* chooses the relay and delivers the bytes it would with no other request in
\* flight, and the configuration stays the one read at startup.
C18_Independent ==
    /\ config = LoadConfig(configFile)
    /\ AsAlone(Context)
    /\ \A i \in DOMAIN parked : AsAlone(parked[i])

\* Both handlers are in the middle of relaying a response body, one through
\* the streaming relay and one through the buffered relay.
C18_Witness ==
    /\ pc = "copy" /\ writer.body # <<>> /\ resp.chunks # <<>>
    /\ \E i \in DOMAIN parked :
          /\ parked[i].pc = "copy" /\ parked[i].writer.body # <<>>
          /\ parked[i].relay # relay
          /\ parked[i].req.auth # req.auth

====
